---- MODULE Spec2Model ----
(***************************************************************************)
(* Model of the deposit-record generator and verifier of                   *)
(* tamtamchik/depositor (src/src/core.ts).                                 *)
(*                                                                         *)
(* Byte sequences (Uint8Array) and strings are values of one shape: a      *)
(* sequence of segments.  A literal segment carries its bytes (0..255) or  *)
(* its characters (character codes); a symbolic segment stands for the     *)
(* positions lo..hi of the output of a cryptographic primitive (SHA-256,   *)
(* BLS public key, BLS signature) applied to given arguments.  Adjacent    *)
(* segments are always merged, so two values are equal exactly when they   *)
(* are the same sequence of segments.  The primitives are ideal: outputs   *)
(* of different calls never coincide and never equal literal bytes.        *)
(***************************************************************************)
EXTENDS Integers, Sequences, FiniteSets, TLC

(***************************************************************************)
(* Segment sequences                                                       *)
(***************************************************************************)

\* the token of a literal run d
LitTok(d) == [f |-> "lit", a |-> <<>>, d |-> d]

\* new Uint8Array / string literal holding the elements d
Lit(d) ==
  IF d = <<>> THEN <<>> ELSE << [t |-> LitTok(d), lo |-> 1, hi |-> Len(d)] >>

\* the n-element output of primitive f applied to args
Sym(f, args, n) ==
  << [t |-> [f |-> f, a |-> args, d |-> <<>>], lo |-> 1, hi |-> n] >>

IsLit(g) == g.t.f = "lit"

SegLen(g) == g.hi - g.lo + 1

RECURSIVE SLen(_)
\* .length
SLen(s) == IF s = <<>> THEN 0 ELSE SegLen(Head(s)) + SLen(Tail(s))

\* concatenation, merging the two segments that meet
Join(x, y) ==
  IF x = <<>> THEN y
  ELSE IF y = <<>> THEN x
  ELSE LET l == x[Len(x)]
           r == y[1]
       IN IF IsLit(l) /\ IsLit(r)
          THEN SubSeq(x, 1, Len(x) - 1) \o Lit(l.t.d \o r.t.d) \o Tail(y)
          ELSE IF ~IsLit(l) /\ ~IsLit(r) /\ l.t = r.t /\ l.hi + 1 = r.lo
          THEN SubSeq(x, 1, Len(x) - 1) \o << [l EXCEPT !.hi = r.hi] >> \o Tail(y)
          ELSE x \o y

\* elements i..j (1-based, inclusive) of one segment
SegSlice(g, i, j) ==
  IF j < i THEN <<>>
  ELSE IF IsLit(g) THEN Lit(SubSeq(g.t.d, i, j))
  ELSE << [g EXCEPT !.lo = g.lo + i - 1, !.hi = g.lo + j - 1] >>

Min(a, b) == IF a < b THEN a ELSE b
Max(a, b) == IF a > b THEN a ELSE b

RECURSIVE SliceFrom(_, _, _)
\* elements with 0-based index in [start, end) of s
SliceFrom(s, start, end) ==
  IF s = <<>> \/ end <= 0 \/ end <= start THEN <<>>
  ELSE LET g == Head(s)
           n == SegLen(g)
       IN Join(SegSlice(g, Max(start, 0) + 1, Min(end, n)),
               SliceFrom(Tail(s), start - n, end - n))

\* String.prototype.slice / Uint8Array.prototype.slice with both bounds
slice(s, start, end) == SliceFrom(s, start, end)

\* slice with the end omitted
sliceFrom(s, start) == SliceFrom(s, start, SLen(s))

\* new Uint8Array(n): n zero bytes
Zeros(n) == Lit([i \in 1..n |-> 0])

RECURSIVE JoinAll(_)
\* the concatenation of a sequence of values
JoinAll(ss) == IF ss = <<>> THEN <<>> ELSE Join(Head(ss), JoinAll(Tail(ss)))

(***************************************************************************)
(* Characters and numbers                                                  *)
(***************************************************************************)

\* the string with the given character codes
Str(codes) == Lit(codes)

\* the digit of nibble v taken from the ten decimal digits only
HexDigit_Decimal(v) == 48 + v

\* the lowercase hexadecimal digit of nibble v
HexDigit(v) == IF v < 10 THEN 48 + v ELSE 87 + v

\* the value of character c as a hexadecimal digit, -1 when it is none
HexVal(c) ==
  IF c >= 48 /\ c <= 57 THEN c - 48
  ELSE IF c >= 97 /\ c <= 102 THEN c - 87
  ELSE IF c >= 65 /\ c <= 70 THEN c - 55
  ELSE -1

\* the character c lower-cased
LowerChar(c) == IF c >= 65 /\ c <= 90 THEN c + 32 ELSE c

RECURSIVE toLowerCase(_)
\* String.prototype.toLowerCase; hex digits of primitive outputs are lowercase
toLowerCase(s) ==
  IF s = <<>> THEN <<>>
  ELSE LET g == Head(s)
       IN Join(IF IsLit(g)
               THEN Lit([i \in 1..Len(g.t.d) |-> LowerChar(g.t.d[i])])
               ELSE <<g>>,
               toLowerCase(Tail(s)))

RECURSIVE DecDigits(_)
\* the decimal digits of n > 0, most significant first
DecDigits(n) ==
  IF n = 0 THEN <<>> ELSE Append(DecDigits(n \div 10), 48 + (n % 10))

\* Number.prototype.toString / BigInt.prototype.toString of an integer n >= 0
toString(n) == IF n = 0 THEN Str(<<48>>) ELSE Str(DecDigits(n))

\* TRUE when s is a literal string of one or more decimal digits
IsDecimal(s) ==
  /\ Len(s) = 1
  /\ IsLit(s[1])
  /\ \A i \in 1..Len(s[1].t.d) : s[1].t.d[i] >= 48 /\ s[1].t.d[i] <= 57

RECURSIVE DecValue(_)
DecValue(d) ==
  IF d = <<>> THEN 0 ELSE 10 * DecValue(SubSeq(d, 1, Len(d) - 1)) + (d[Len(d)] - 48)

\* Number(s) and BigInt(s) of a decimal string s
ParseDecimal(s) == DecValue(s[1].t.d)

RECURSIVE BigInt(_)
\* the bigint of the integer n >= 0: its base-65536 digits, least
\* significant first, without leading zero digits
BigInt(n) == IF n = 0 THEN <<>> ELSE <<n % 65536>> \o BigInt(n \div 65536)

\* the base-65536 digit j (from 0) of the bigint x
Digit(x, j) == IF j < Len(x) THEN x[j + 1] ELSE 0

\* x >> BigInt(k * 8), the digits above the result kept as they come
Shr8(x, k) ==
  LET Shifted(q, r) ==
        [j \in 1..(IF Len(x) > q THEN Len(x) - q ELSE 0) |->
           IF r = 0 THEN Digit(x, q + j - 1)
           ELSE Digit(x, q + j - 1) \div 256 + (Digit(x, q + j) % 256) * 256]
  IN Shifted(k \div 2, k % 2)

\* Number(x & 0xffn)
LowByte(x) == Digit(x, 0) % 256

(***************************************************************************)
(* Byte/hex codec                                                          *)
(***************************************************************************)

\* the two hex digits of every byte of the literal run d
HexOfLit(d) ==
  [i \in 1..(2 * Len(d)) |->
     IF i % 2 = 1 THEN HexDigit(d[(i + 1) \div 2] \div 16)
     ELSE HexDigit(d[i \div 2] % 16)]

RECURSIVE HexOf(_)
\* the lowercase hex digits of the bytes u
HexOf(u) ==
  IF u = <<>> THEN <<>>
  ELSE LET g == Head(u)
       IN Join(IF IsLit(g) THEN Lit(HexOfLit(g.t.d))
               ELSE << [g EXCEPT !.lo = 2 * g.lo - 1, !.hi = 2 * g.hi] >>,
               HexOf(Tail(u)))

\* toHexString of @chainsafe/ssz: "0x" followed by the hex digits
toHexString(u) == Join(Str(<<48, 120>>), HexOf(u))

\* hex: a Uint8Array as a hex string without 0x prefix
hex(u) == sliceFrom(toHexString(u), 2)

\* parseInt(pair, 16) of two literal characters, -1 for NaN
parseInt16(c1, c2) ==
  IF HexVal(c1) < 0 THEN -1
  ELSE IF HexVal(c2) < 0 THEN HexVal(c1)
  ELSE 16 * HexVal(c1) + HexVal(c2)

\* bytes[i] = parseInt(pair, 16): the byte stored for a two-character pair
ByteOfPair(pair) ==
  IF Len(pair) = 1 /\ IsLit(pair[1])
  THEN LET v == parseInt16(pair[1].t.d[1], pair[1].t.d[2])
       IN Lit(<< IF v < 0 THEN 0 ELSE v >>)
  ELSE IF Len(pair) = 1 /\ pair[1].lo % 2 = 1
  THEN << [pair[1] EXCEPT !.lo = (pair[1].lo + 1) \div 2,
                          !.hi = (pair[1].lo + 1) \div 2] >>
  ELSE Sym("parseInt", <<pair>>, 1)

RECURSIVE DecodePairs(_, _, _)
\* the loop of fromHex / fromHexString over the pairs i .. n-1, evaluated by
\* halving the range
DecodePairs(h, i, n) ==
  IF i >= n THEN <<>>
  ELSE IF n = i + 1 THEN ByteOfPair(slice(h, i * 2, i * 2 + 2))
  ELSE LET m == (i + n) \div 2
       IN Join(DecodePairs(h, i, m), DecodePairs(h, m, n))

\* String.prototype.startsWith("0x")
StartsWith0x(h) == slice(h, 0, 2) = Str(<<48, 120>>)

Strip0x(h) == IF StartsWith0x(h) THEN sliceFrom(h, 2) ELSE h

\* fromHex without the leading zero for a string of odd length
fromHex_NoPad(h0) ==
  LET Decode(h1) ==
        IF SLen(h1) = 0 THEN <<>> ELSE DecodePairs(h1, 0, SLen(h1) \div 2)
  IN Decode(Strip0x(h0))

\* fromHex: a hex string to a Uint8Array
fromHex(h0) ==
  LET Decode(h2) == DecodePairs(h2, 0, SLen(h2) \div 2)
      Pad(h1) ==
        IF SLen(h1) = 0 THEN <<>>
        ELSE Decode(IF SLen(h1) % 2 # 0 THEN Join(Str(<<48>>), h1) ELSE h1)
  IN Pad(Strip0x(h0))

\* fromHexString of @chainsafe/ssz throws on a string of odd length
fromHexStringThrows(h0) == SLen(Strip0x(h0)) % 2 # 0

\* fromHexString of @chainsafe/ssz
fromHexString(h0) ==
  LET Decode(h1) == DecodePairs(h1, 0, SLen(h1) \div 2) IN Decode(Strip0x(h0))

(***************************************************************************)
(* Hashing                                                                 *)
(***************************************************************************)

HashLen == 32

\* sha256: the SHA-256 digest of d
sha256(d) == Sym("sha256", <<d>>, HashLen)

\* sha256Concat: the SHA-256 digest of the concatenated inputs
sha256Concat(inputs) == Sym("sha256", <<JoinAll(inputs)>>, HashLen)

\* the amount written most significant byte first
encodeGweiAsLittleEndian8_BigEndian(amountGwei) ==
  Lit([i \in 1..8 |-> LowByte(Shr8(amountGwei, 8 - i))])

\* encodeGweiAsLittleEndian8: a Gwei amount (a bigint) as 8 little-endian
\* bytes
encodeGweiAsLittleEndian8(amountGwei) ==
  Lit([i \in 1..8 |-> LowByte(Shr8(amountGwei, i - 1))])


(***************************************************************************)
(* Networks                                                                *)
(***************************************************************************)

\* ONE_ETH_GWEI: 1 ETH in Gwei
ONE_ETH_GWEI == 1000000000

mainnet == Str(<<109, 97, 105, 110, 110, 101, 116>>)
sepolia == Str(<<115, 101, 112, 111, 108, 105, 97>>)
hoodi == Str(<<104, 111, 111, 100, 105>>)
\* "MAINNET", "unknown", "constructor"
MAINNET == Str(<<77, 65, 73, 78, 78, 69, 84>>)
unknown == Str(<<117, 110, 107, 110, 111, 119, 110>>)
constructor == Str(<<99, 111, 110, 115, 116, 114, 117, 99, 116, 111, 114>>)
\* "__proto__"
proto == Str(<<95, 95, 112, 114, 111, 116, 111, 95, 95>>)

\* networks: the own properties of the configuration object
networks ==
  [n \in {mainnet, sepolia, hoodi} |->
     [name |-> n,
      own |-> TRUE,
      forkVersion |->
        IF n = mainnet THEN Lit(<<0, 0, 0, 0>>)
        ELSE IF n = sepolia THEN Lit(<<144, 0, 0, 105>>)
        ELSE Lit(<<16, 0, 9, 16>>)]]

\* the all-lowercase property names networks inherits from Object.prototype
InheritedKeys == {constructor, proto}

\* networks[key]: own property, inherited property (an object without name
\* and forkVersion), or undefined
Lookup(key) ==
  IF key \in DOMAIN networks THEN [found |-> TRUE, config |-> networks[key]]
  ELSE [found |-> key \in InheritedKeys,
        config |-> [name |-> <<>>, own |-> FALSE, forkVersion |-> <<>>]]

\* getNetworkConfig: the configuration of chain, or the unsupported-network error
getNetworkConfig(chain) ==
  LET r == Lookup(toLowerCase(chain))
  IN IF ~r.found
     THEN [ok |-> FALSE, err |-> "Unsupported network", config |-> r.config]
     ELSE [ok |-> TRUE, err |-> "", config |-> r.config]

(***************************************************************************)
(* Collaborators: SSZ hashing, domains, BLS                                *)
(***************************************************************************)

\* DOMAIN_DEPOSIT of @lodestar/params
DOMAIN_DEPOSIT == Lit(<<3, 0, 0, 0>>)

\* ZERO_HASH of @lodestar/state-transition
ZERO_HASH == Zeros(32)

\* SSZ pack: the bytes right-padded with zeros to whole 32-byte chunks
Pack(b) ==
  LET n == SLen(b)
      m == ((n + 31) \div 32) * 32
      p == Join(b, Zeros(m - n))
  IN [i \in 1..(m \div 32) |-> slice(p, 32 * (i - 1), 32 * i)]

RECURSIVE PadChunks(_, _)
PadChunks(cs, n) == IF Len(cs) >= n THEN cs ELSE PadChunks(Append(cs, Zeros(32)), n)

RECURSIVE NextPow2(_, _)
NextPow2(n, p) == IF p >= n THEN p ELSE NextPow2(n, 2 * p)

RECURSIVE MerkleizePadded(_)
MerkleizePadded(cs) ==
  IF Len(cs) = 1 THEN cs[1]
  ELSE MerkleizePadded([i \in 1..(Len(cs) \div 2) |->
                          sha256(Join(cs[2 * i - 1], cs[2 * i]))])

\* SSZ merkleize: pairwise SHA-256 of the chunks padded to a power of two
Merkleize(cs) == MerkleizePadded(PadChunks(cs, NextPow2(Len(cs), 1)))

\* hashTreeRoot of a byte vector
BytesRoot(b) == Merkleize(Pack(b))

\* hashTreeRoot of a 64-bit unsigned number
UintRoot(n) == Merkleize(Pack(encodeGweiAsLittleEndian8(BigInt(n))))

\* ssz.DepositMessage.hashTreeRoot
DepositMessageRoot(msg) ==
  Merkleize(<<BytesRoot(msg.pubkey), BytesRoot(msg.withdrawalCredentials),
              UintRoot(msg.amount)>>)

\* ssz.DepositData.hashTreeRoot
DepositDataRoot(d) ==
  Merkleize(<<BytesRoot(d.pubkey), BytesRoot(d.withdrawalCredentials),
              UintRoot(d.amount), BytesRoot(d.signature)>>)

\* computeDomain of @lodestar/state-transition
computeDomain(domainType, forkVersion, genesisValidatorsRoot) ==
  Join(domainType,
       slice(Merkleize(<<BytesRoot(forkVersion), BytesRoot(genesisValidatorsRoot)>>),
             0, 28))

\* computeSigningRoot(ssz.DepositMessage, msg, domain)
computeSigningRoot(msg, domain) ==
  Merkleize(<<DepositMessageRoot(msg), BytesRoot(domain)>>)

PubkeyLen == 48
SignatureLen == 96

\* sk.toPublicKey().toBytes() of the secret key with bytes signing
blsPublicKey(signing) == Sym("blsPublicKey", <<signing>>, PubkeyLen)

\* sk.sign(root).toBytes()
blsSign(signing, root) == Sym("blsSign", <<signing, root>>, SignatureLen)

\* the whole output of one call of primitive f
IsWhole(b, f, n) ==
  Len(b) = 1 /\ b[1].t.f = f /\ b[1].lo = 1 /\ b[1].hi = n

\* bls.PublicKey.fromBytes accepts only encodings of public keys
PublicKeyDecodes(pub) == IsWhole(pub, "blsPublicKey", PubkeyLen)

\* bls.Signature.fromBytes accepts only encodings of signatures
SignatureDecodes(sig) == IsWhole(sig, "blsSign", SignatureLen)

\* signature.verify(pubkey, r) of decoded values
blsVerify(sig, pub, r) == sig[1].t.a = <<pub[1].t.a[1], r>>


(***************************************************************************)
(* Withdrawal credentials                                                  *)
(***************************************************************************)

\* TypedArray.prototype.set: out with src written at offset off
SetAt(out, src, off) ==
  JoinAll(<<slice(out, 0, off), src, sliceFrom(out, off + SLen(src))>>)

\* isHexAddr looking at the prefix and the length only
isHexAddr_LengthOnly(a) ==
  /\ SLen(a) = 42
  /\ StartsWith0x(a)

\* isHexAddr: /^0x[0-9a-fA-F]{40}$/
isHexAddr(a) ==
  /\ SLen(a) = 42
  /\ StartsWith0x(a)
  /\ Len(a) = 1
  /\ IsLit(a[1])
  /\ \A i \in 3..42 : HexVal(a[1].t.d[i]) >= 0

\* parseAddress reading the pairs from the start of the string
parseAddress_FromStart(addr) == DecodePairs(addr, 0, 20)

\* parseAddress: the 20 bytes of a checked address
parseAddress(addr) == DecodePairs(sliceFrom(addr, 2), 0, 20)

\* the absent address argument
NoAddr == <<>>

\* buildWithdrawalCredentials copying the whole hash for type 0
buildWithdrawalCredentials_WholeHash(type, pub, addr) ==
  LET out == Zeros(32)
  IN IF type = 0
     THEN [ok |-> TRUE, err |-> "", value |-> SetAt(out, sha256(pub), 0)]
     ELSE IF addr = NoAddr
     THEN [ok |-> FALSE, err |-> "MissingAddress", value |-> <<>>]
     ELSE IF ~isHexAddr(addr)
     THEN [ok |-> FALSE, err |-> "InvalidAddress", value |-> <<>>]
     ELSE [ok |-> TRUE, err |-> "",
           value |-> SetAt(SetAt(out, Lit(<<type>>), 0), parseAddress(addr), 12)]

\* buildWithdrawalCredentials without the test for an absent address
buildWithdrawalCredentials_NoMissingCheck(type, pub, addr) ==
  LET out == Zeros(32)
  IN IF type = 0
     THEN [ok |-> TRUE, err |-> "",
           value |-> SetAt(out, sliceFrom(sha256(pub), 1), 1)]
     ELSE IF ~isHexAddr(addr)
     THEN [ok |-> FALSE, err |-> "InvalidAddress", value |-> <<>>]
     ELSE [ok |-> TRUE, err |-> "",
           value |-> SetAt(SetAt(out, Lit(<<type>>), 0), parseAddress(addr), 12)]

\* buildWithdrawalCredentials: the 32 bytes, or the error thrown; an absent
\* address and the empty string are both falsy
buildWithdrawalCredentials(type, pub, addr) ==
  LET out == Zeros(32)
  IN IF type = 0
     THEN [ok |-> TRUE, err |-> "",
           value |-> SetAt(out, sliceFrom(sha256(pub), 1), 1)]
     ELSE IF addr = NoAddr
     THEN [ok |-> FALSE, err |-> "MissingAddress", value |-> <<>>]
     ELSE IF ~isHexAddr(addr)
     THEN [ok |-> FALSE, err |-> "InvalidAddress", value |-> <<>>]
     ELSE [ok |-> TRUE, err |-> "",
           value |-> SetAt(SetAt(out, Lit(<<type>>), 0), parseAddress(addr), 12)]

(***************************************************************************)
(* Deposit data                                                            *)
(***************************************************************************)

\* computeDepositDataRoot: the manual record root, "0x" + 64 hex digits;
\* amountETH is the bigint the caller passes
computeDepositDataRoot(pubkey, withdrawalCredentials, signature, amountETH) ==
  LET pubkeyBytes == fromHex(pubkey)
      withdrawalCredentialsBytes == fromHex(withdrawalCredentials)
      signatureBytes == fromHex(signature)
      amountGwei == amountETH * 1000000000
      amountLE64 == encodeGweiAsLittleEndian8(BigInt(amountGwei))
      pubkeyRoot == sha256Concat(<<pubkeyBytes, Zeros(16)>>)
      sigSlice1 == slice(signatureBytes, 0, 64)
      sigSlice2 == sliceFrom(signatureBytes, 64)
      sigSlice1Root == sha256Concat(<<sigSlice1>>)
      sigSlice2Root == sha256Concat(<<sigSlice2, Zeros(32)>>)
      signatureRoot == sha256Concat(<<sigSlice1Root, sigSlice2Root>>)
      part1 == sha256Concat(<<pubkeyRoot, withdrawalCredentialsBytes>>)
      part2 == sha256Concat(<<amountLE64, Zeros(24), signatureRoot>>)
      depositDataRoot == sha256Concat(<<part1, part2>>)
  IN Join(Str(<<48, 120>>), HexOf(depositDataRoot))

\* deposit_cli_version: "node23-tsx"
CliVersion == Str(<<110, 111, 100, 101, 50, 51, 45, 116, 115, 120>>)

\* the value of a call that threw
NoRecord ==
  [pubkey |-> <<>>, withdrawal_credentials |-> <<>>, amount |-> <<>>,
   signature |-> <<>>, deposit_message_root |-> <<>>,
   deposit_data_root |-> <<>>, network_name |-> <<>>,
   deposit_cli_version |-> <<>>]

\* generateDepositData writing the configured name of the network instead of
\* the chain argument
generateDepositData_ConfigName(pubkey, signing, withdrawalCredentials, amount, chain) ==
  LET networkConfig == getNetworkConfig(chain)
      domain == computeDomain(DOMAIN_DEPOSIT, networkConfig.config.forkVersion,
                              ZERO_HASH)
      depositMsg == [pubkey |-> pubkey,
                     withdrawalCredentials |-> withdrawalCredentials,
                     amount |-> amount]
      root == computeSigningRoot(depositMsg, domain)
      signature == blsSign(signing, root)
      depositData == [pubkey |-> pubkey,
                      withdrawalCredentials |-> withdrawalCredentials,
                      amount |-> amount, signature |-> signature]
      msgRoot == DepositMessageRoot(depositMsg)
      dataRoot == DepositDataRoot(depositData)
  IN IF ~networkConfig.ok
     THEN [ok |-> FALSE, err |-> networkConfig.err, value |-> NoRecord,
           calls |-> <<"getNetworkConfig">>]
     ELSE IF ~networkConfig.config.own
     \* forkVersion is undefined: hashing it throws inside computeDomain
     THEN [ok |-> FALSE, err |-> "TypeError", value |-> NoRecord,
           calls |-> <<"getNetworkConfig", "computeDomain">>]
     ELSE [ok |-> TRUE, err |-> "",
           value |-> [pubkey |-> hex(pubkey),
                      withdrawal_credentials |-> hex(withdrawalCredentials),
                      amount |-> toString(amount),
                      signature |-> hex(signature),
                      deposit_message_root |-> hex(msgRoot),
                      deposit_data_root |-> hex(dataRoot),
                      network_name |-> networkConfig.config.name,
                      deposit_cli_version |-> CliVersion],
           calls |-> <<"getNetworkConfig", "computeDomain",
                       "SecretKey.fromBytes", "computeSigningRoot", "sign",
                       "DepositMessage.hashTreeRoot",
                       "DepositData.hashTreeRoot">>]

\* generateDepositData: the record, or the error thrown, with the
\* collaborator and engine calls made, in order
generateDepositData(pubkey, signing, withdrawalCredentials, amount, chain) ==
  LET networkConfig == getNetworkConfig(chain)
      domain == computeDomain(DOMAIN_DEPOSIT, networkConfig.config.forkVersion,
                              ZERO_HASH)
      depositMsg == [pubkey |-> pubkey,
                     withdrawalCredentials |-> withdrawalCredentials,
                     amount |-> amount]
      root == computeSigningRoot(depositMsg, domain)
      signature == blsSign(signing, root)
      depositData == [pubkey |-> pubkey,
                      withdrawalCredentials |-> withdrawalCredentials,
                      amount |-> amount, signature |-> signature]
      msgRoot == DepositMessageRoot(depositMsg)
      dataRoot == DepositDataRoot(depositData)
  IN IF ~networkConfig.ok
     THEN [ok |-> FALSE, err |-> networkConfig.err, value |-> NoRecord,
           calls |-> <<"getNetworkConfig">>]
     ELSE IF ~networkConfig.config.own
     \* forkVersion is undefined: hashing it throws inside computeDomain
     THEN [ok |-> FALSE, err |-> "TypeError", value |-> NoRecord,
           calls |-> <<"getNetworkConfig", "computeDomain">>]
     ELSE [ok |-> TRUE, err |-> "",
           value |-> [pubkey |-> hex(pubkey),
                      withdrawal_credentials |-> hex(withdrawalCredentials),
                      amount |-> toString(amount),
                      signature |-> hex(signature),
                      deposit_message_root |-> hex(msgRoot),
                      deposit_data_root |-> hex(dataRoot),
                      network_name |-> chain,
                      deposit_cli_version |-> CliVersion],
           calls |-> <<"getNetworkConfig", "computeDomain",
                       "SecretKey.fromBytes", "computeSigningRoot", "sign",
                       "DepositMessage.hashTreeRoot",
                       "DepositData.hashTreeRoot">>]

\* debugLog: the lines written to the console
debugLog(debug, lines) == IF debug THEN lines ELSE <<>>

\* "0x"
Prefix0x == Str(<<48, 120>>)

\* verifyDepositData, conversions: fromHexString throws on an odd length,
\* BigInt on a string that is no integer
VerifyInputsThrow(depositData) ==
  IF \/ fromHexStringThrows(Join(Prefix0x, depositData.pubkey))
     \/ fromHexStringThrows(Join(Prefix0x, depositData.withdrawal_credentials))
     \/ fromHexStringThrows(Join(Prefix0x, depositData.signature))
  THEN "hex string length"
  ELSE IF ~IsDecimal(depositData.amount) THEN "SyntaxError"
  ELSE ""

\* verifyDepositData, first part: the decoded fields and the three
\* recomputed roots
VerifyInputs(depositData) ==
  LET Recompute(pub, wc, sig, amount) ==
        [pub |-> pub, wc |-> wc, sig |-> sig,
         msg |-> [pubkey |-> pub, withdrawalCredentials |-> wc,
                  amount |-> amount],
         expectMsgRoot |->
           hex(DepositMessageRoot([pubkey |-> pub,
                                   withdrawalCredentials |-> wc,
                                   amount |-> amount])),
         expectDataRoot |->
           hex(DepositDataRoot([pubkey |-> pub, withdrawalCredentials |-> wc,
                                amount |-> amount, signature |-> sig])),
         altDataRoot |->
           sliceFrom(computeDepositDataRoot(
                       Join(Prefix0x, depositData.pubkey),
                       Join(Prefix0x, depositData.withdrawal_credentials),
                       Join(Prefix0x, depositData.signature),
                       amount \div 1000000000), 2)]
  IN Recompute(fromHexString(Join(Prefix0x, depositData.pubkey)),
               fromHexString(Join(Prefix0x, depositData.withdrawal_credentials)),
               fromHexString(Join(Prefix0x, depositData.signature)),
               ParseDecimal(depositData.amount))

\* the first mismatch among the root comparisons, or "ok"
FirstMismatch(msgRootDiffers, dataRootDiffers, altRootDiffers) ==
  IF msgRootDiffers THEN "Message root mismatch"
  ELSE IF dataRootDiffers THEN "Data root mismatch"
  ELSE IF altRootDiffers THEN "Alternative data root mismatch"
  ELSE "ok"

\* the root comparisons without the manual record root
RootCheck_NoAlt(depositData) ==
  LET Compare(in) ==
        FirstMismatch(in.expectMsgRoot # depositData.deposit_message_root,
                      in.expectDataRoot # depositData.deposit_data_root,
                      FALSE)
  IN Compare(VerifyInputs(depositData))

\* the root comparisons without the message root
RootCheck_NoMsg(depositData) ==
  LET Compare(in) ==
        FirstMismatch(FALSE,
                      in.expectDataRoot # depositData.deposit_data_root,
                      in.altDataRoot # depositData.deposit_data_root)
  IN Compare(VerifyInputs(depositData))

\* verifyDepositData, root comparisons: the first mismatch, or "ok"
RootCheck(depositData) ==
  LET Compare(in) ==
        FirstMismatch(in.expectMsgRoot # depositData.deposit_message_root,
                      in.expectDataRoot # depositData.deposit_data_root,
                      in.altDataRoot # depositData.deposit_data_root)
  IN Compare(VerifyInputs(depositData))

\* verifyDepositData, BLS part: the call that throws, or the verdict
SignatureCheck(depositData, domain) ==
  LET Check(in) ==
        IF ~PublicKeyDecodes(in.pub) THEN "PublicKey.fromBytes"
        ELSE IF ~SignatureDecodes(in.sig) THEN "Signature.fromBytes"
        ELSE IF blsVerify(in.sig, in.pub, computeSigningRoot(in.msg, domain))
        THEN "valid"
        ELSE "invalid"
  IN Check(VerifyInputs(depositData))

\* the calls of the first part of verifyDepositData
RootCalls ==
  <<"fromHexString", "fromHexString", "fromHexString",
    "DepositMessage.hashTreeRoot", "DepositData.hashTreeRoot",
    "computeDepositDataRoot">>

\* the calls of the BLS part, up to the one that throws
SignatureCalls(verdict) ==
  IF verdict = "PublicKey.fromBytes"
  THEN <<"computeSigningRoot", "PublicKey.fromBytes">>
  ELSE IF verdict = "Signature.fromBytes"
  THEN <<"computeSigningRoot", "PublicKey.fromBytes", "Signature.fromBytes">>
  ELSE <<"computeSigningRoot", "PublicKey.fromBytes", "Signature.fromBytes",
         "verify">>

\* the outcome of verifyDepositData, from what its parts found
VerifyOutcome(thrown, roots, verdict, debug) ==
  IF thrown # ""
  THEN [status |-> "error", err |-> thrown, log |-> <<>>,
        calls |-> <<"fromHexString">>]
  ELSE IF roots # "ok"
  THEN [status |-> "invalid", err |-> "",
        log |-> debugLog(debug, <<"Verification Details", roots>>),
        calls |-> RootCalls]
  ELSE IF verdict \in {"PublicKey.fromBytes", "Signature.fromBytes"}
  THEN [status |-> "error", err |-> verdict,
        log |-> debugLog(debug, <<"Verification Details">>),
        calls |-> RootCalls \o SignatureCalls(verdict)]
  ELSE [status |-> verdict, err |-> "",
        log |-> debugLog(debug, <<"Verification Details",
                                  "BLS Signature Verification">>),
        calls |-> RootCalls \o SignatureCalls(verdict)]

\* verifyDepositData returning before the BLS part when DEBUG is set
verifyDepositData_DebugReturns(depositData, domain, debug) ==
  LET Result(roots) ==
        IF debug /\ roots = "ok"
        THEN [status |-> "valid", err |-> "",
              log |-> <<"Verification Details">>, calls |-> RootCalls]
        ELSE VerifyOutcome(VerifyInputsThrow(depositData), roots,
                           SignatureCheck(depositData, domain), debug)
  IN Result(RootCheck(depositData))

\* verifyDepositData looking up the record's network_name first
verifyDepositData_LooksUpNetwork(depositData, domain, debug) ==
  IF ~getNetworkConfig(depositData.network_name).ok
  THEN [status |-> "error", err |-> "Unsupported network", log |-> <<>>,
        calls |-> <<"getNetworkConfig">>]
  ELSE VerifyOutcome(VerifyInputsThrow(depositData), RootCheck(depositData),
                     SignatureCheck(depositData, domain), debug)

\* verifyDepositData: "valid", "invalid" or "error", with the console output
\* and the collaborator and engine calls made, in order
verifyDepositData(depositData, domain, debug) ==
  VerifyOutcome(VerifyInputsThrow(depositData), RootCheck(depositData),
                SignatureCheck(depositData, domain), debug)

(***************************************************************************)
(* State                                                                   *)
(***************************************************************************)

VARIABLES
  gen,     \* the last generateDepositData call: its arguments and outcome
  rec,     \* the deposit record at hand (NoRecord before generation)
  stage,   \* how rec was obtained from the generated record
  domain,  \* the domain value handed to the verifier
  DEBUG,   \* process.env.DEBUG is set
  last,    \* the last verifyDepositData call: its arguments and outcome
  prev,    \* the verifyDepositData call before the last one
  call,    \* the call of a helper of core.ts in progress: arguments and result
  cli      \* the run of main() of cli.ts: options, position, memory and disk

vars == <<gen, rec, stage, domain, DEBUG, last, prev, call, cli>>

\* the variables of the generate/verify operations
depositVars == <<gen, rec, stage, domain, DEBUG, last, prev>>

\* the number of validator keys considered
NumKeys == 1

\* the signing key bytes of validator k
SigningKey(k) == Lit([i \in 1..32 |-> k])

\* 1.5 ETH in Gwei, an amount that is no whole number of ETH
ONE_AND_A_HALF_ETH == ONE_ETH_GWEI + 500000000

\* a well-formed withdrawal address, 0x followed by 40 times "a"
AddrA == Str(<<48, 120>> \o [i \in 1..40 |-> 97])

\* the generation requests considered: withdrawal type, amount in Gwei and
\* chain argument
Requests ==
  { <<0, ONE_ETH_GWEI, mainnet>>,
    <<1, ONE_AND_A_HALF_ETH, mainnet>>,
    <<1, ONE_ETH_GWEI, MAINNET>>,
    <<0, ONE_AND_A_HALF_ETH, sepolia>>,
    <<1, ONE_ETH_GWEI, hoodi>>,
    <<0, ONE_ETH_GWEI, unknown>>,
    <<1, ONE_ETH_GWEI, constructor>> }

\* the domain of a configured network, as the callers compute it
DomainOf(n) == computeDomain(DOMAIN_DEPOSIT, networks[n].forkVersion, ZERO_HASH)

NoGen ==
  [called |-> FALSE, pubkey |-> <<>>, signing |-> <<>>,
   withdrawalCredentials |-> <<>>, amount |-> 0, chain |-> <<>>,
   out |-> [ok |-> FALSE, err |-> "", value |-> NoRecord, calls |-> <<>>]]

NoVerify ==
  [called |-> FALSE, rec |-> NoRecord, domain |-> <<>>, debug |-> FALSE,
   out |-> [status |-> "", err |-> "", log |-> <<>>, calls |-> <<>>]]

\* no helper call in progress
NoCall ==
  [op |-> "none", args |-> <<>>, out |-> [ok |-> TRUE, err |-> "", value |-> <<>>]]

\* the options of a run that was not started
NoValues ==
  [validators |-> 0, wcType |-> 0, wcAddress |-> <<>>, chain |-> <<>>,
   password |-> FALSE, verify |-> FALSE, amount |-> 0]

\* main() was not started: nothing in memory, nothing on disk
NoRun ==
  [pc |-> "none", values |-> NoValues, i |-> 0, signing |-> <<>>,
   pubkey |-> <<>>, withdrawalCredentials |-> <<>>, depositDataArray |-> <<>>,
   domain |-> <<>>, dir |-> FALSE, keystores |-> <<>>,
   disk |-> {},
   file |-> [written |-> FALSE, items |-> <<>>], idx |-> 0, err |-> "",
   failedAt |-> "", events |-> <<>>]

Init ==
  /\ gen = NoGen
  /\ rec = NoRecord
  /\ stage = "none"
  /\ domain = DomainOf(mainnet)
  /\ DEBUG = FALSE
  /\ last = NoVerify
  /\ prev = NoVerify
  /\ call = NoCall
  /\ cli = NoRun

(***************************************************************************)
(* Operations                                                              *)
(***************************************************************************)

\* one validator of the CLI loop: keys of index k, credentials of the given
\* type, then generateDepositData
Generate(k, type, amount, chain) ==
  LET Store(signing, pubkey, wc, out) ==
        /\ gen' = [called |-> TRUE, pubkey |-> pubkey, signing |-> signing,
                   withdrawalCredentials |-> wc, amount |-> amount,
                   chain |-> chain, out |-> out]
        /\ rec' = out.value
        /\ stage' = IF out.ok THEN "generated" ELSE "none"
      Deposit(signing, pubkey, wc) ==
        Store(signing, pubkey, wc,
              generateDepositData(pubkey, signing, wc, amount, chain))
      Credentials(signing, pubkey) ==
        Deposit(signing, pubkey,
                buildWithdrawalCredentials(type, pubkey, AddrA).value)
      Keys(signing) == Credentials(signing, blsPublicKey(signing))
  IN /\ stage = "none"
     /\ Keys(SigningKey(k))
     /\ UNCHANGED <<domain, DEBUG, last, prev, call, cli>>

\* the caller computes the domain of network n, before it verifies
SetDomain(n) ==
  /\ stage = "generated"
  /\ ~last.called
  /\ domain # DomainOf(n)
  /\ domain' = DomainOf(n)
  /\ UNCHANGED <<gen, rec, stage, DEBUG, last, prev, call, cli>>

\* the DEBUG environment toggle is set or deleted
SetDebug ==
  /\ DEBUG' = ~DEBUG
  /\ UNCHANGED <<gen, rec, stage, domain, last, prev, call, cli>>

\* a verification that blanks the signature of the record it was given
Verify_Mutates ==
  /\ stage # "none"
  /\ ~(last.called /\ last.rec = rec /\ last.debug = DEBUG)
  /\ last' = [called |-> TRUE, rec |-> rec, domain |-> domain, debug |-> DEBUG,
              out |-> verifyDepositData(rec, domain, DEBUG)]
  /\ prev' = last
  /\ rec' = [rec EXCEPT !.signature = <<>>]
  /\ UNCHANGED <<gen, stage, domain, DEBUG, call, cli>>

\* verifyDepositData(rec, domain), for arguments not verified just before
Verify ==
  /\ stage # "none"
  /\ ~(last.called /\ last.rec = rec /\ last.debug = DEBUG)
  /\ last' = [called |-> TRUE, rec |-> rec, domain |-> domain, debug |-> DEBUG,
              out |-> verifyDepositData(rec, domain, DEBUG)]
  /\ prev' = last
  /\ UNCHANGED <<gen, rec, stage, domain, DEBUG, call, cli>>

\* the hex string h with the byte at index p replaced by v
WithByte(h, p, v) ==
  JoinAll(<<slice(h, 0, 2 * p), HexOf(Lit(<<v>>)), sliceFrom(h, 2 * p + 2)>>)

TamperFields == {"pubkey", "signature", "deposit_message_root", "deposit_data_root"}

\* the byte indexes that are changed
TamperPositions(f) ==
  IF f = "pubkey" THEN {47}
  ELSE IF f = "signature" THEN {0, 95}
  ELSE {0, 31}

\* a copy of the generated record with one byte of one field changed
TamperByte(f, p, v) ==
  /\ stage = "generated"
  /\ WithByte(rec[f], p, v) # rec[f]
  /\ rec' = [rec EXCEPT ![f] = WithByte(rec[f], p, v)]
  /\ stage' = "tampered"
  /\ UNCHANGED <<gen, domain, DEBUG, last, prev, call, cli>>

\* the two roots of the record r, recomputed from its fields
Rerooted(r) ==
  LET Roots(pub, wc, sig, amount) ==
        [r EXCEPT
           !.deposit_message_root =
              hex(DepositMessageRoot([pubkey |-> pub,
                                      withdrawalCredentials |-> wc,
                                      amount |-> amount])),
           !.deposit_data_root =
              hex(DepositDataRoot([pubkey |-> pub,
                                   withdrawalCredentials |-> wc,
                                   amount |-> amount,
                                   signature |-> sig]))]
  IN Roots(fromHexString(r.pubkey), fromHexString(r.withdrawal_credentials),
           fromHexString(r.signature), ParseDecimal(r.amount))

\* a copy of a record with changed key or signature whose roots are made
\* consistent with its fields
Reroot ==
  /\ stage = "tampered"
  /\ rec.deposit_message_root = gen.out.value.deposit_message_root
  /\ rec.deposit_data_root = gen.out.value.deposit_data_root
  /\ rec' = Rerooted(rec)
  /\ stage' = "rerooted"
  /\ last' = NoVerify
  /\ prev' = NoVerify
  /\ UNCHANGED <<gen, domain, DEBUG, call, cli>>

\* a copy of the generated record with another network_name or
\* deposit_cli_version
Relabel(name, version) ==
  /\ stage = "generated"
  /\ <<name, version>> # <<rec.network_name, rec.deposit_cli_version>>
  /\ rec' = [rec EXCEPT !.network_name = name, !.deposit_cli_version = version]
  /\ stage' = "relabeled"
  /\ UNCHANGED <<gen, domain, DEBUG, last, prev, call, cli>>

\* "v2"
OtherVersion == Str(<<118, 50>>)

Next ==
  \/ \E k \in 1..NumKeys, q \in Requests : Generate(k, q[1], q[2], q[3])
  \/ \E n \in DOMAIN networks : SetDomain(n)
  \/ SetDebug
  \/ Verify
  \/ \E f \in TamperFields : \E p \in TamperPositions(f) : TamperByte(f, p, 0)
  \/ Reroot
  \/ Relabel(unknown, rec.deposit_cli_version)
  \/ Relabel(rec.network_name, OtherVersion)

Spec == Init /\ [][Next]_vars

(***************************************************************************)
(* Properties                                                              *)
(***************************************************************************)

\* the last verification was of the record as generated, under the domain
\* of the network it was generated for
VerifiedAsGenerated ==
  /\ gen.out.ok
  /\ last.called
  /\ last.rec = gen.out.value

\* the configured network a chain argument names
NetworkOf(chain) == networks[toLowerCase(chain)]

\* the four conditions of the verifier on record r under domain d
AllChecksHold(r, d) ==
  /\ VerifyInputs(r).expectMsgRoot = r.deposit_message_root
  /\ VerifyInputs(r).expectDataRoot = r.deposit_data_root
  /\ VerifyInputs(r).altDataRoot = r.deposit_data_root
  /\ PublicKeyDecodes(VerifyInputs(r).pub)
  /\ SignatureDecodes(VerifyInputs(r).sig)
  /\ blsVerify(VerifyInputs(r).sig, VerifyInputs(r).pub,
               computeSigningRoot(VerifyInputs(r).msg, d))

\* C1: a record returned by generateDepositData, verified with the domain of
\* the network it was generated for, is valid, whatever the amount.
C1_GeneratedVerifies ==
  (VerifiedAsGenerated /\ last.domain = DomainOf(toLowerCase(gen.chain)))
    => last.out.status = "valid"

\* C2: the verifier returns valid only if the reference message root, the
\* reference record root and the manual record root equal the stored roots
\* and the BLS signature check over the recomputed signing root passes.
C2_ValidOnlyIfAllChecks ==
  (last.called /\ last.out.status = "valid")
    => AllChecksHold(last.rec, last.domain)

C2_Witness ==
  /\ last.called
  /\ last.out.status = "valid"
  /\ last.out.calls = RootCalls \o SignatureCalls("valid")

\* C3: a record in which a stored root or the signature does not match makes
\* the verifier return invalid as a normal value; it never raises an error.
C3_MismatchIsInvalidNotError ==
  (last.called /\ VerifyInputsThrow(last.rec) = ""
     /\ ~AllChecksHold(last.rec, last.domain))
    => last.out.status = "invalid"

\* the hex strings a and b have the same length and differ in exactly one byte
OneByteDiffers(a, b) ==
  /\ SLen(a) = SLen(b)
  /\ Cardinality({p \in 0..(SLen(a) \div 2 - 1) :
                    slice(a, 2 * p, 2 * p + 2) # slice(b, 2 * p, 2 * p + 2)}) = 1

\* record q is record r with a single byte of field f changed
ChangedIn(r, q, f) ==
  /\ OneByteDiffers(r[f], q[f])
  /\ \A g \in DOMAIN r : g # f => q[g] = r[g]

\* C4: from a record that verifies valid, changing a single byte of
\* deposit_message_root, deposit_data_root or signature, all other fields
\* unchanged, makes the verifier return invalid.
C4_SingleByteChangeIsInvalid ==
  (/\ prev.called
   /\ prev.out.status = "valid"
   /\ last.called
   /\ last.domain = prev.domain
   /\ \E f \in {"deposit_message_root", "deposit_data_root", "signature"} :
        ChangedIn(prev.rec, last.rec, f))
    => last.out.status = "invalid"

C4_Witness ==
  /\ prev.called
  /\ prev.out.status = "valid"
  /\ last.called
  /\ last.domain = prev.domain
  /\ ChangedIn(prev.rec, last.rec, "deposit_message_root")
  /\ last.out.status = "invalid"

\* the record has a 48-byte pubkey, 32-byte withdrawal credentials, a
\* 96-byte signature and a decimal amount
ValidTuple(r) ==
  /\ VerifyInputsThrow(r) = ""
  /\ SLen(VerifyInputs(r).pub) = PubkeyLen
  /\ SLen(VerifyInputs(r).wc) = 32
  /\ SLen(VerifyInputs(r).sig) = SignatureLen

\* C5: for every valid tuple of pubkey, withdrawal credentials, amount and
\* signature, the manual record root the verifier obtains from
\* computeDepositDataRoot equals the reference hash-tree-root of the record.
C5_ManualRootEqualsReference ==
  (last.called /\ ValidTuple(last.rec))
    => VerifyInputs(last.rec).altDataRoot = VerifyInputs(last.rec).expectDataRoot

\* the outcome of a verification: valid, invalid, or the error raised
Outcome(v) == <<v.out.status, v.out.err>>

\* C6: the outcome of verifying a record under a domain is the same with the
\* DEBUG toggle on and off; debug mode only adds log output.
C6_DebugDoesNotChangeOutcome ==
  (/\ prev.called
   /\ last.called
   /\ prev.rec = last.rec
   /\ prev.domain = last.domain
   /\ prev.debug # last.debug)
    => /\ Outcome(prev) = Outcome(last)
       /\ prev.out.calls = last.out.calls

C6_Witness ==
  /\ prev.called
  /\ last.called
  /\ prev.rec = last.rec
  /\ prev.domain = last.domain
  /\ ~prev.debug
  /\ last.debug
  /\ prev.out.log = <<>>
  /\ last.out.log # <<>>
  /\ last.out.status = "valid"

\* C7: a record generated for one network and verified with the domain of a
\* network with another fork version is invalid: the root checks pass and
\* the signature check fails.
C7_CrossNetworkIsInvalid ==
  (/\ VerifiedAsGenerated
   /\ \E n \in DOMAIN networks :
        /\ networks[n].forkVersion # NetworkOf(gen.chain).forkVersion
        /\ last.domain = DomainOf(n))
    => /\ last.out.status = "invalid"
       /\ RootCheck(last.rec) = "ok"
       /\ SignatureCheck(last.rec, last.domain) = "invalid"

CoreFields ==
  {"pubkey", "withdrawal_credentials", "amount", "signature",
   "deposit_message_root", "deposit_data_root"}

\* C8: two records that differ only in network_name or deposit_cli_version
\* get the same result under the same domain.
C8_MetadataDoesNotChangeOutcome ==
  (/\ prev.called
   /\ last.called
   /\ prev.domain = last.domain
   /\ \A f \in CoreFields : prev.rec[f] = last.rec[f]
   /\ prev.rec # last.rec)
    => Outcome(prev) = Outcome(last)

C8_Witness ==
  /\ prev.called
  /\ last.called
  /\ prev.domain = last.domain
  /\ \A f \in CoreFields : prev.rec[f] = last.rec[f]
  /\ prev.rec.network_name # last.rec.network_name
  /\ last.out.status = "valid"

\* C9: in every record generateDepositData returns, deposit_message_root and
\* deposit_data_root are the reference hash-tree-roots of the record's
\* fields, the manual engine was not called, and network_name is the chain
\* argument as passed.
C9_GeneratedRootsAreReference ==
  (gen.called /\ gen.out.ok)
    => /\ gen.out.value.deposit_message_root =
            hex(DepositMessageRoot(
                  [pubkey |-> gen.pubkey,
                   withdrawalCredentials |-> gen.withdrawalCredentials,
                   amount |-> gen.amount]))
       /\ Rerooted(gen.out.value) = gen.out.value
       /\ \A i \in 1..Len(gen.out.calls) :
            gen.out.calls[i] # "computeDepositDataRoot"
       /\ gen.out.value.network_name = gen.chain

C9_Witness ==
  /\ gen.called
  /\ gen.out.ok
  /\ gen.chain = MAINNET
  /\ gen.out.value.network_name = MAINNET

\* C10: generateDepositData called with a network name that is not
\* configured fails with the unsupported-network error before any domain
\* computation, signing or hashing, and returns no record.
C10_UnknownNetworkFailsFirst ==
  (gen.called /\ toLowerCase(gen.chain) \notin DOMAIN networks)
    => /\ ~gen.out.ok
       /\ gen.out.err = "Unsupported network"
       /\ gen.out.calls = <<"getNetworkConfig">>
       /\ gen.out.value = NoRecord

(***************************************************************************)
(* Calls of the helpers of core.ts, one at a time                          *)
(***************************************************************************)

\* the longest text handed to fromHex, and the longest byte sequence handed
\* to hex
MaxTextLen == 3
MaxBytes == 3

\* the characters of the texts: 0 1 a F g x
TextAlphabet == {48, 49, 97, 70, 103, 120}

\* the values of the bytes: 0x00 0x01 0x0a 0xab 0xff
ByteValues == {0, 1, 10, 171, 255}

\* all sequences over alphabet of length at most n
SeqsUpTo(alphabet, n) == UNION {[1..k -> alphabet] : k \in 0..n}

\* the texts handed to fromHex
HexTexts == {Str(c) : c \in SeqsUpTo(TextAlphabet, MaxTextLen)}

\* the byte sequences handed to hex
ByteSeqs == {Lit(d) : d \in SeqsUpTo(ByteValues, MaxBytes)}

\* "Sepolia", "HOODI", "mainnet " and the empty name
Sepolia == Str(<<83, 101, 112, 111, 108, 105, 97>>)
HOODI == Str(<<72, 79, 79, 68, 73>>)
mainnetSpace == Str(<<109, 97, 105, 110, 110, 101, 116, 32>>)

\* the chain names handed to getNetworkConfig
ChainNames ==
  {mainnet, MAINNET, sepolia, Sepolia, hoodi, HOODI, mainnetSpace, unknown,
   constructor, proto, Str(<<>>)}

\* the mock public key of the unit tests: 48 bytes of value 1
MockPubkey == Lit([i \in 1..48 |-> 1])

\* the public keys handed to buildWithdrawalCredentials
Pubkeys == {MockPubkey, blsPublicKey(SigningKey(1)), blsPublicKey(SigningKey(2))}

\* "0x" followed by the 40 characters 0123456789abcdefABCDEF0123456789abcdefAB
AddrMixed ==
  Str(<<48, 120>>
      \o <<48, 49, 50, 51, 52, 53, 54, 55, 56, 57, 97, 98, 99, 100, 101, 102>>
      \o <<65, 66, 67, 68, 69, 70>>
      \o <<48, 49, 50, 51, 52, 53, 54, 55, 56, 57, 97, 98, 99, 100, 101, 102>>
      \o <<65, 66>>)

\* malformed addresses: no prefix, one character short, one character long,
\* a character g, a trailing line feed in place of the last digit
AddrNoPrefix == Str([i \in 1..40 |-> 97])
AddrShort == Str(<<48, 120>> \o [i \in 1..39 |-> 97])
AddrLong == Str(<<48, 120>> \o [i \in 1..41 |-> 97])
AddrBadChar == Str(<<48, 120>> \o [i \in 1..39 |-> 97] \o <<103>>)
AddrLineFeed == Str(<<48, 120>> \o [i \in 1..39 |-> 97] \o <<10>>)

\* the address arguments handed to buildWithdrawalCredentials
Addresses ==
  {NoAddr, AddrA, AddrMixed, AddrNoPrefix, AddrShort, AddrLong, AddrBadChar,
   AddrLineFeed}

\* the hex text "0x" followed by n times the byte 0x12
HexOfLength(n) == Join(Prefix0x, HexOf(Lit([i \in 1..n |-> 18])))

\* the byte lengths of the fields handed to computeDepositDataRoot: pubkey,
\* withdrawal credentials, signature
RootLengths ==
  { <<48, 32, 96>>, <<47, 32, 96>>, <<48, 33, 96>>, <<48, 32, 95>>,
    <<0, 0, 0>>, <<1, 1, 1>> }

\* the result of a call that returned v
Returned(v) == [ok |-> TRUE, err |-> "", value |-> v]

\* getNetworkConfig(chain) is called
CallGetNetworkConfig(chain) ==
  /\ call.op = "none"
  /\ call' = [op |-> "getNetworkConfig", args |-> <<chain>>,
              out |-> [ok |-> getNetworkConfig(chain).ok,
                       err |-> getNetworkConfig(chain).err,
                       value |-> getNetworkConfig(chain).config]]
  /\ UNCHANGED <<depositVars, cli>>

\* fromHex(text) is called; it has no throw statement
CallFromHex(text) ==
  /\ call.op = "none"
  /\ call' = [op |-> "fromHex", args |-> <<text>>, out |-> Returned(fromHex(text))]
  /\ UNCHANGED <<depositVars, cli>>

\* hex(b) is called
CallHex(b) ==
  /\ call.op = "none"
  /\ call' = [op |-> "hex", args |-> <<b>>, out |-> Returned(hex(b))]
  /\ UNCHANGED <<depositVars, cli>>

\* buildWithdrawalCredentials(type, pub, addr) is called
CallBuildWithdrawalCredentials(type, pub, addr) ==
  /\ call.op = "none"
  /\ call' = [op |-> "buildWithdrawalCredentials", args |-> <<type, pub, addr>>,
              out |-> buildWithdrawalCredentials(type, pub, addr)]
  /\ UNCHANGED <<depositVars, cli>>

\* computeDepositDataRoot is called with hex texts of the given byte lengths
\* and a bigint amount; it has no throw statement
CallComputeDepositDataRoot(lengths, amountETH) ==
  /\ call.op = "none"
  /\ call' = [op |-> "computeDepositDataRoot",
              args |-> <<HexOfLength(lengths[1]), HexOfLength(lengths[2]),
                         HexOfLength(lengths[3]), amountETH>>,
              out |-> Returned(computeDepositDataRoot(
                                 HexOfLength(lengths[1]), HexOfLength(lengths[2]),
                                 HexOfLength(lengths[3]), amountETH))]
  /\ UNCHANGED <<depositVars, cli>>

\* the largest number of base-65536 digits of a bigint amount
MaxDigits == 5

\* the digit values tried: 0, 0x0102 and 0xffff
DigitValues == {0, 258, 65535}

\* the bigint amounts: 1 and 1.5 ETH in Gwei, and the bigints of up to
\* MaxDigits digits, which reach beyond 2^64
Amounts ==
  {BigInt(ONE_ETH_GWEI), BigInt(ONE_AND_A_HALF_ETH)}
    \cup {x \in SeqsUpTo(DigitValues, MaxDigits) : x = <<>> \/ x[Len(x)] # 0}

\* encodeGweiAsLittleEndian8(amountGwei) is called; it has no throw statement
CallEncodeGweiAsLittleEndian8(amountGwei) ==
  /\ call.op = "none"
  /\ call' = [op |-> "encodeGweiAsLittleEndian8", args |-> <<amountGwei>>,
              out |-> Returned(encodeGweiAsLittleEndian8(amountGwei))]
  /\ UNCHANGED <<depositVars, cli>>

\* the call returns to its caller
Return ==
  /\ call.op # "none"
  /\ call' = NoCall
  /\ UNCHANGED <<depositVars, cli>>

HelperNext ==
  \/ \E chain \in ChainNames : CallGetNetworkConfig(chain)
  \/ \E text \in HexTexts : CallFromHex(text)
  \/ \E b \in ByteSeqs : CallHex(b)
  \/ \E type \in 0..2, pub \in Pubkeys, addr \in Addresses :
       CallBuildWithdrawalCredentials(type, pub, addr)
  \/ \E lengths \in RootLengths, amountETH \in 1..2 :
       CallComputeDepositDataRoot(lengths, amountETH)
  \/ \E amountGwei \in Amounts : CallEncodeGweiAsLittleEndian8(amountGwei)
  \/ Return

HelperSpec == Init /\ [][HelperNext]_vars

(***************************************************************************)
(* Properties of the helpers                                               *)
(***************************************************************************)

\* the characters of a literal string
Chars(t) == IF t = <<>> THEN <<>> ELSE t[1].t.d

\* the characters 0-9, a-f, A-F
HexChars == (48..57) \cup (97..102) \cup (65..70)

\* every character of the literal string t is a hexadecimal digit
IsHexDigits(t) == \A i \in 1..Len(Chars(t)) : Chars(t)[i] \in HexChars

\* C11: getNetworkConfig returns the configuration, with a 4-byte fork
\* version, of the network whose name is the lower-cased argument, and fails
\* with the unsupported-network error for every other argument.
C11_LookupIsCaseInsensitive ==
  (call.op = "getNetworkConfig")
    => IF toLowerCase(call.args[1]) \in {mainnet, sepolia, hoodi}
       THEN /\ call.out.ok
            /\ call.out.value = networks[toLowerCase(call.args[1])]
            /\ SLen(call.out.value.forkVersion) = 4
       ELSE /\ ~call.out.ok
            /\ call.out.err = "Unsupported network"

\* C12: fromHex applied to the text hex returned for a byte sequence gives
\* that byte sequence back.
C12_HexRoundTrip ==
  (call.op = "hex") => fromHex(call.out.value) = call.args[1]

C12_Witness ==
  /\ call.op = "hex"
  /\ call.args[1] = Lit(<<0, 171, 255>>)
  /\ call.out.value = Str(<<48, 48, 97, 98, 102, 102>>)
  /\ fromHex(call.out.value) = call.args[1]

\* C13: fromHex of a text that, after the optional 0x prefix, holds a
\* character that is no hexadecimal digit fails with the malformed-hex error.
C13_NonHexIsMalformed ==
  (call.op = "fromHex" /\ ~IsHexDigits(Strip0x(call.args[1])))
    => /\ ~call.out.ok
       /\ call.out.err = "MalformedHex"

\* C14: for a string s of hexadecimal digits fromHex("0x" + s) = fromHex(s),
\* fromHex(s) = fromHex("0" + s) when s has odd length, the result has
\* ceil(len(s) / 2) bytes, and fromHex("") and fromHex("0x") are empty.
C14_PrefixAndPadding ==
  /\ (call.op = "fromHex" /\ IsHexDigits(call.args[1]))
       => /\ fromHex(Join(Prefix0x, call.args[1])) = call.out.value
          /\ (SLen(call.args[1]) % 2 = 1)
               => fromHex(Join(Str(<<48>>), call.args[1])) = call.out.value
          /\ SLen(call.out.value) = (SLen(call.args[1]) + 1) \div 2
  /\ (call.op = "fromHex" /\ call.args[1] \in {Str(<<>>), Prefix0x})
       => call.out.value = <<>>

\* fromHex("1aF") = 0x01 0xaf
C14_Witness ==
  /\ call.op = "fromHex"
  /\ call.args[1] = Str(<<49, 97, 70>>)
  /\ call.out.value = Lit(<<1, 175>>)

\* C15: for type 0 buildWithdrawalCredentials returns 32 bytes, byte 0 is
\* 0x00 and bytes 1..31 are bytes 1..31 of SHA-256(pubkey), with or without
\* an address argument.
C15_Type0IsHashOfPubkey ==
  (call.op = "buildWithdrawalCredentials" /\ call.args[1] = 0)
    => /\ call.out.ok
       /\ SLen(call.out.value) = 32
       /\ slice(call.out.value, 0, 1) = Lit(<<0>>)
       /\ sliceFrom(call.out.value, 1) = sliceFrom(sha256(call.args[2]), 1)

C15_Witness ==
  /\ call.op = "buildWithdrawalCredentials"
  /\ call.args[1] = 0
  /\ call.args[2] = blsPublicKey(SigningKey(1))
  /\ call.args[3] = AddrBadChar
  /\ call.out.ok

\* the address is 0x followed by 40 hexadecimal characters
WellFormed(addr) ==
  /\ Len(Chars(addr)) = 42
  /\ SubSeq(Chars(addr), 1, 2) = <<48, 120>>
  /\ \A i \in 3..42 : Chars(addr)[i] \in HexChars

\* the 20 bytes a well-formed address spells
AddressBytes(addr) ==
  Lit([i \in 1..20 |->
         16 * HexVal(Chars(addr)[2 * i + 1]) + HexVal(Chars(addr)[2 * i + 2])])

\* C16: for type 1 or 2 and a well-formed address the result is 32 bytes:
\* the type, 11 zero bytes, the 20 address bytes in order, whatever the
\* pubkey.
C16_AddressCredentials ==
  (/\ call.op = "buildWithdrawalCredentials"
   /\ call.args[1] \in {1, 2}
   /\ WellFormed(call.args[3]))
    => /\ call.out.ok
       /\ SLen(call.out.value) = 32
       /\ slice(call.out.value, 0, 1) = Lit(<<call.args[1]>>)
       /\ slice(call.out.value, 1, 12) = Zeros(11)
       /\ slice(call.out.value, 12, 32) = AddressBytes(call.args[3])
       /\ \A pub \in Pubkeys :
            buildWithdrawalCredentials(call.args[1], pub, call.args[3]) = call.out

C16_Witness ==
  /\ call.op = "buildWithdrawalCredentials"
  /\ call.args[1] = 2
  /\ call.args[3] = AddrMixed
  /\ call.out.ok
  /\ slice(call.out.value, 12, 14) = Lit(<<1, 35>>)

\* C17: for type 1 or 2 without an address buildWithdrawalCredentials fails
\* with the missing-address error and returns no credentials.
C17_MissingAddress ==
  (/\ call.op = "buildWithdrawalCredentials"
   /\ call.args[1] \in {1, 2}
   /\ call.args[3] = NoAddr)
    => /\ ~call.out.ok
       /\ call.out.err = "MissingAddress"
       /\ call.out.value = <<>>

C17_Witness ==
  /\ call.op = "buildWithdrawalCredentials"
  /\ call.args[1] = 2
  /\ call.args[3] = NoAddr
  /\ ~call.out.ok

\* C18 as stated: whenever the address supplied is not 0x followed by 40
\* hexadecimal characters, buildWithdrawalCredentials fails with the
\* invalid-address error and returns no credentials.
C18_MalformedAddressFails ==
  (/\ call.op = "buildWithdrawalCredentials"
   /\ call.args[3] # NoAddr
   /\ ~WellFormed(call.args[3]))
    => /\ ~call.out.ok
       /\ call.out.err = "InvalidAddress"
       /\ call.out.value = <<>>

\* C18: for type 1 or 2, whenever the address supplied is not 0x followed by
\* 40 hexadecimal characters, buildWithdrawalCredentials fails with the
\* invalid-address error and returns no credentials; for type 0 the address
\* is not looked at.
C18_MalformedAddressFailsForTypes1And2 ==
  (/\ call.op = "buildWithdrawalCredentials"
   /\ call.args[1] \in {1, 2}
   /\ call.args[3] # NoAddr
   /\ ~WellFormed(call.args[3]))
    => /\ ~call.out.ok
       /\ call.out.err = "InvalidAddress"
       /\ call.out.value = <<>>

C18_Witness ==
  /\ call.op = "buildWithdrawalCredentials"
  /\ call.args[1] = 1
  /\ call.args[3] = AddrBadChar
  /\ call.out.err = "InvalidAddress"

\* C19: computeDepositDataRoot fails with the invalid-length error and
\* returns no root when the pubkey is not 48 bytes, the withdrawal
\* credentials are not 32 bytes or the signature is not 96 bytes.
C19_BadLengthsRejected ==
  (/\ call.op = "computeDepositDataRoot"
   /\ \/ SLen(fromHex(call.args[1])) # PubkeyLen
      \/ SLen(fromHex(call.args[2])) # 32
      \/ SLen(fromHex(call.args[3])) # SignatureLen)
    => /\ ~call.out.ok
       /\ call.out.err = "InvalidLength"

(***************************************************************************)
(* The command line run: main() of cli.ts                                  *)
(***************************************************************************)

\* the largest --validators value
MaxValidators == 2

\* the parsed options: --validators, --wc-type, --wc-address, --chain,
\* --password given, --verify, and --amount (1 or 1.5) in Gwei
OptionValues ==
  [validators : 0..MaxValidators,
   wcType : 0..3,
   wcAddress : {NoAddr, AddrA, AddrShort},
   chain : {mainnet, unknown},
   password : BOOLEAN,
   verify : BOOLEAN,
   amount : {ONE_ETH_GWEI, ONE_AND_A_HALF_ETH}]

\* main() entered with the options v
Started(v) == [NoRun EXCEPT !.pc = "args", !.values = v]

\* an error thrown out of main: main().catch exits the process
Thrown(c, err) ==
  [c EXCEPT !.pc = "failed", !.err = err, !.failedAt = c.pc,
            !.events = Append(@, <<"failed", c.pc, c.i>>)]

\* the loop test i < NUM: the next validator, or the end of the loop
LoopOrWrite(i, NUM) == IF i < NUM THEN "keys" ELSE "write"

CliInit ==
  /\ gen = NoGen
  /\ rec = NoRecord
  /\ stage = "none"
  /\ domain = DomainOf(mainnet)
  /\ DEBUG = FALSE
  /\ last = NoVerify
  /\ prev = NoVerify
  /\ call = NoCall
  /\ cli \in {Started(v) : v \in OptionValues}

\* the checks of --wc-type and --password made after the output directory
\* was created
ParseArgs_AfterMkdir ==
  /\ cli.pc = "args"
  /\ cli' = IF cli.values.wcType \notin {0, 1, 2}
            THEN Thrown([cli EXCEPT !.dir = TRUE],
                        "--wc-type must be 0, 1, or 2")
            ELSE IF ~cli.values.password
            THEN Thrown([cli EXCEPT !.dir = TRUE],
                        "--password is required for keystore generation")
            ELSE [cli EXCEPT !.pc = "mkdir"]
  /\ UNCHANGED <<depositVars, call>>

\* the argument checks with a check of --wc-address added
ParseArgs_ChecksAddress ==
  /\ cli.pc = "args"
  /\ cli' = IF cli.values.wcType \notin {0, 1, 2}
            THEN Thrown(cli, "--wc-type must be 0, 1, or 2")
            ELSE IF ~cli.values.password
            THEN Thrown(cli, "--password is required for keystore generation")
            ELSE IF cli.values.wcType # 0 /\ cli.values.wcAddress = NoAddr
            THEN Thrown(cli, "MissingAddress")
            ELSE [cli EXCEPT !.pc = "mkdir"]
  /\ UNCHANGED <<depositVars, call>>

\* the checks of --wc-type and --password
ParseArgs ==
  /\ cli.pc = "args"
  /\ cli' = IF cli.values.wcType \notin {0, 1, 2}
            THEN Thrown(cli, "--wc-type must be 0, 1, or 2")
            ELSE IF ~cli.values.password
            THEN Thrown(cli, "--password is required for keystore generation")
            ELSE [cli EXCEPT !.pc = "mkdir"]
  /\ UNCHANGED <<depositVars, call>>

\* mkdir(values.out, recursive)
MakeDir ==
  /\ cli.pc = "mkdir"
  /\ cli' = [cli EXCEPT !.pc = "network", !.dir = TRUE,
                        !.events = Append(@, <<"mkdir">>)]
  /\ UNCHANGED <<depositVars, call>>

\* getNetworkConfig and computeDomain, then the first loop test
ResolveNetwork ==
  LET Resolve(networkConfig) ==
        IF ~networkConfig.ok THEN Thrown(cli, networkConfig.err)
        ELSE IF ~networkConfig.config.own THEN Thrown(cli, "TypeError")
        ELSE [cli EXCEPT
                !.pc = LoopOrWrite(0, cli.values.validators),
                !.domain = computeDomain(DOMAIN_DEPOSIT,
                                         networkConfig.config.forkVersion,
                                         ZERO_HASH)]
  IN /\ cli.pc = "network"
     /\ cli' = Resolve(getNetworkConfig(cli.values.chain))
     /\ UNCHANGED <<depositVars, call>>

\* the largest value the millisecond clock takes during a run
MaxClock == 1

\* the values of Date.now()
Timestamps == 0..MaxClock

\* String.prototype.replaceAll of a character in a literal string
replaceAll(s, from, to) ==
  IF s = <<>> THEN <<>>
  ELSE Lit([n \in 1..Len(s[1].t.d) |->
              IF s[1].t.d[n] = from THEN to ELSE s[1].t.d[n]])

\* the derivation path m/12381/3600/<index>/0/0
ValidatorPath(index) ==
  Join(Join(Str(<<109, 47, 49, 50, 51, 56, 49, 47, 51, 54, 48, 48, 47>>),
            toString(index)),
       Str(<<47, 48, 47, 48>>))

\* a keystore file name that leaves the path out:
\* keystore-<timestamp>.json
keystoreFile_NoIndex(index, timestamp) ==
  Join(Join(Str(<<107, 101, 121, 115, 116, 111, 114, 101, 45>>),
            toString(timestamp)),
       Str(<<46, 106, 115, 111, 110>>))

\* the keystore file name: keystore-<path with _ for />-<timestamp>.json
keystoreFile(index, timestamp) ==
  Join(Join(Join(Join(Str(<<107, 101, 121, 115, 116, 111, 114, 101, 45>>),
                      replaceAll(ValidatorPath(index), 47, 95)),
                 Str(<<45>>)),
            toString(timestamp)),
       Str(<<46, 106, 115, 111, 110>>))

\* writeFile: the file of that name is created, or replaced when it exists
writeFile(disk, name, content) ==
  {f \in disk : f.name # name} \cup {[name |-> name, content |-> content]}

\* generateValidatorKeys for index 0 whatever the loop counter is
GenerateKeys_IndexZero(timestamp) ==
  /\ cli.pc = "keys"
  /\ cli' = [cli EXCEPT
               !.pc = "credentials",
               !.signing = SigningKey(0),
               !.pubkey = blsPublicKey(SigningKey(0)),
               !.keystores = Append(@, cli.i),
               !.disk = writeFile(@, keystoreFile(cli.i, timestamp), cli.i),
               !.events = @ \o << <<"keys", cli.i>>, <<"keystore", cli.i>> >>]
  /\ UNCHANGED <<depositVars, call>>

\* generateValidatorKeys for index i: the keys, and the keystore file written
\* under the name made of the path and of the time of the call
GenerateKeys(timestamp) ==
  /\ cli.pc = "keys"
  /\ cli' = [cli EXCEPT
               !.pc = "credentials",
               !.signing = SigningKey(cli.i),
               !.pubkey = blsPublicKey(SigningKey(cli.i)),
               !.keystores = Append(@, cli.i),
               !.disk = writeFile(@, keystoreFile(cli.i, timestamp), cli.i),
               !.events = @ \o << <<"keys", cli.i>>, <<"keystore", cli.i>> >>]
  /\ UNCHANGED <<depositVars, call>>

\* generateValidatorKeys for index i fails in a collaborator (key derivation,
\* keystore encryption, writeFile) before the keystore file exists
GenerateKeysFails ==
  /\ cli.pc = "keys"
  /\ cli' = Thrown([cli EXCEPT !.events = Append(@, <<"keys", cli.i>>)],
                   "CollaboratorFailure")
  /\ UNCHANGED <<depositVars, call>>

\* buildWithdrawalCredentials(WC_TYPE, pubkey, values["wc-address"])
BuildCredentials ==
  LET Build(out) ==
        IF ~out.ok THEN Thrown(cli, out.err)
        ELSE [cli EXCEPT !.pc = "deposit", !.withdrawalCredentials = out.value,
                         !.events = Append(@, <<"credentials", cli.i>>)]
  IN /\ cli.pc = "credentials"
     /\ cli' = Build(buildWithdrawalCredentials(cli.values.wcType, cli.pubkey,
                                                cli.values.wcAddress))
     /\ UNCHANGED <<depositVars, call>>

\* generateDepositData, depositDataArray.push, i++ and the loop test
GenerateDeposit ==
  LET Push(out) ==
        IF ~out.ok THEN Thrown(cli, out.err)
        ELSE [cli EXCEPT
                !.pc = LoopOrWrite(cli.i + 1, cli.values.validators),
                !.i = cli.i + 1,
                !.depositDataArray = Append(@, out.value),
                !.events = Append(@, <<"record", cli.i>>)]
  IN /\ cli.pc = "deposit"
     /\ cli' = Push(generateDepositData(cli.pubkey, cli.signing,
                                        cli.withdrawalCredentials,
                                        cli.values.amount, cli.values.chain))
     /\ UNCHANGED <<depositVars, call>>

\* a failure of generateDepositData that is swallowed: the loop goes on with
\* the next validator
GenerateDepositFails_Continues ==
  /\ cli.pc = "deposit"
  /\ cli' = [cli EXCEPT !.pc = LoopOrWrite(cli.i + 1, cli.values.validators),
                        !.i = cli.i + 1]
  /\ UNCHANGED <<depositVars, call>>

\* generateDepositData fails in a collaborator (BLS, hashing)
GenerateDepositFails ==
  /\ cli.pc = "deposit"
  /\ cli' = Thrown(cli, "CollaboratorFailure")
  /\ UNCHANGED <<depositVars, call>>

\* writeFile of the deposit data file, then the --verify test
WriteDepositFile ==
  /\ cli.pc = "write"
  /\ cli' = [cli EXCEPT
               !.pc = IF cli.values.verify /\ cli.depositDataArray # <<>>
                      THEN "verify" ELSE "done",
               !.file = [written |-> TRUE, items |-> cli.depositDataArray],
               !.events = Append(@, <<"file">>)]
  /\ UNCHANGED <<depositVars, call>>

\* the message of the error thrown for the item at index idx
VerificationFailed(idx) ==
  "Validator #" \o ToString(idx) \o ": verification failed"

\* an iteration of the verification loop that reports an invalid item and
\* goes on with the next one
VerifyItem_Continues ==
  LET Judge(out) ==
        IF out.status = "error" THEN Thrown(cli, out.err)
        ELSE [cli EXCEPT
                !.pc = IF cli.idx + 1 < Len(cli.file.items)
                       THEN "verify" ELSE "done",
                !.idx = cli.idx + 1,
                !.events = Append(@, <<IF out.status = "invalid"
                                       THEN "checked" ELSE "verified",
                                       cli.idx>>)]
  IN /\ cli.pc = "verify"
     /\ cli' = Judge(verifyDepositData(cli.file.items[cli.idx + 1], cli.domain,
                                       DEBUG))
     /\ UNCHANGED <<depositVars, call>>

\* one iteration of the verification loop over the items read from the file
VerifyItem ==
  LET Judge(out) ==
        IF out.status = "error" THEN Thrown(cli, out.err)
        ELSE IF out.status = "invalid"
        THEN Thrown([cli EXCEPT !.events = Append(@, <<"checked", cli.idx>>)],
                    VerificationFailed(cli.idx))
        ELSE [cli EXCEPT
                !.pc = IF cli.idx + 1 < Len(cli.file.items)
                       THEN "verify" ELSE "done",
                !.idx = cli.idx + 1,
                !.events = Append(@, <<"verified", cli.idx>>)]
  IN /\ cli.pc = "verify"
     /\ cli' = Judge(verifyDepositData(cli.file.items[cli.idx + 1], cli.domain,
                                       DEBUG))
     /\ UNCHANGED <<depositVars, call>>

CliNext ==
  \/ ParseArgs
  \/ MakeDir
  \/ ResolveNetwork
  \/ \E timestamp \in Timestamps : GenerateKeys(timestamp)
  \/ GenerateKeysFails
  \/ BuildCredentials
  \/ GenerateDeposit
  \/ GenerateDepositFails
  \/ WriteDepositFile
  \/ VerifyItem

CliSpec == CliInit /\ [][CliNext]_vars

\* the credentials step of a run with --wc-type 1 or 2 and no --wc-address
MissingAddressStep ==
  /\ cli.values.wcType \in {1, 2}
  /\ cli.values.wcAddress = NoAddr
  /\ BuildCredentials

\* main() with the synchronous call of buildWithdrawalCredentials running
\* to its end once the keys of the validator were returned
CliLiveSpec == CliInit /\ [][CliNext]_vars /\ WF_vars(MissingAddressStep)

(***************************************************************************)
(* Properties of the command line run                                      *)
(***************************************************************************)

\* the run was aborted by a failure inside the loop, at validator cli.i
FailedInLoop ==
  /\ cli.pc = "failed"
  /\ cli.failedAt \in {"keys", "credentials", "deposit"}

\* the indexes of the validators whose processing began
Processed == {cli.events[n][2] : n \in {m \in 1..Len(cli.events) :
                                           cli.events[m][1] = "keys"}}

\* C20: when key generation, credential building or record generation fails
\* for validator i, no validator with a greater index is processed, no
\* deposit data file is written and no output of the run remains on disk.
C20_FailureLeavesNoOutput ==
  FailedInLoop
    => /\ \A j \in Processed : j <= cli.i
       /\ ~cli.file.written
       /\ cli.keystores = <<>>

\* the positions of the events of the given kind in the log of the run
EventsOf(kind) == {n \in 1..Len(cli.events) : cli.events[n][1] = kind}

\* the indexes of the validators whose record was produced and appended
Recorded == {cli.events[n][2] : n \in EventsOf("record")}

\* C21: validators are processed in index order 0, 1, ..., N-1; the key
\* generation of validator j starts only after the record of validator j-1
\* was produced and appended, and at most one validator is in progress.
C21_StrictlySequential ==
  /\ \A n \in EventsOf("keys") :
       /\ cli.events[n][2] = Cardinality({m \in EventsOf("keys") : m < n})
       /\ cli.events[n][2] < cli.values.validators
       /\ \A j \in 0..(cli.events[n][2] - 1) :
            \E m \in EventsOf("record") : m < n /\ cli.events[m][2] = j
  /\ \A n \in EventsOf("record") :
       \E m \in EventsOf("keys") : m < n /\ cli.events[m][2] = cli.events[n][2]
  /\ Cardinality(Processed \ Recorded) <= 1
  /\ cli.pc \in {"keys", "credentials", "deposit"}
       => Len(cli.depositDataArray) = cli.i

C21_Witness ==
  /\ cli.pc = "credentials"
  /\ cli.i = 1
  /\ Processed = {0, 1}
  /\ Recorded = {0}
  /\ Len(cli.depositDataArray) = 1

\* the record the run has to produce for the validator at the given index:
\* its key derived at that index, the credentials of the chosen scheme, and
\* the amount and chain of the run
RecordOf(index) ==
  generateDepositData(
    blsPublicKey(SigningKey(index)), SigningKey(index),
    buildWithdrawalCredentials(cli.values.wcType,
                               blsPublicKey(SigningKey(index)),
                               cli.values.wcAddress).value,
    cli.values.amount, cli.values.chain).value

\* C22: after a successful run with validators = N, N keystore files were
\* written, one per index 0..N-1, and the one deposit data file holds
\* exactly N records, the record at position i generated from the key at
\* index i with the scheme, address, amount and chain of the run.
C22_SuccessfulRunOutput ==
  cli.pc = "done"
    => /\ cli.keystores = [n \in 1..cli.values.validators |-> n - 1]
       /\ Cardinality(cli.disk) = cli.values.validators
       /\ Cardinality(EventsOf("file")) = 1
       /\ cli.file.written
       /\ Len(cli.file.items) = cli.values.validators
       /\ \A n \in 1..cli.values.validators :
            cli.file.items[n] = RecordOf(n - 1)

C22_Witness ==
  /\ cli.pc = "done"
  /\ cli.values.validators = 2
  /\ Len(cli.file.items) = 2
  /\ cli.file.items[1] # cli.file.items[2]

\* the names of the files in the output directory
FileNames == {f.name : f \in cli.disk}

\* C23: the keystore files of different indexes have different names,
\* whatever the times of the calls, so that within a run every keystore
\* written is still on disk: none was overwritten by a later one.
C23_KeystoreNamesDistinct ==
  /\ \A i, j \in 0..MaxValidators : \A t, u \in Timestamps :
       i # j => keystoreFile(i, t) # keystoreFile(j, u)
  /\ Cardinality(FileNames) = Len(cli.keystores)
  /\ \A n \in 1..Len(cli.keystores) :
       \E f \in cli.disk : f.content = cli.keystores[n]

C23_Witness ==
  \E t \in Timestamps :
    /\ keystoreFile(0, t) \in FileNames
    /\ keystoreFile(1, t) \in FileNames
    /\ Len(cli.keystores) = 2

\* C24: a call of verifyDepositData, whatever its outcome, leaves the record
\* and the domain it was given unchanged and writes no file and no other
\* state: only the result of the call is new.
C24_VerifyIsPure ==
  [][(last'.called /\ last' # last)
       => /\ rec' = rec
          /\ domain' = domain
          /\ last'.rec = rec
          /\ last'.domain = domain
          /\ gen' = gen
          /\ stage' = stage
          /\ cli' = cli
          /\ call' = call]_vars

C24_Witness ==
  /\ last.called
  /\ prev.called
  /\ last.out.status # prev.out.status
  /\ last.rec = rec
  /\ last.domain = domain

\* the nested hash of the record root, written out for the amount a in Gwei
NestedRoot(pk, wc, sig, a) ==
  sha256Concat(<<
    sha256Concat(<<sha256Concat(<<pk, Zeros(16)>>), wc>>),
    sha256Concat(<<
      encodeGweiAsLittleEndian8(BigInt(a)), Zeros(24),
      sha256Concat(<<sha256Concat(<<slice(sig, 0, 64)>>),
                     sha256Concat(<<sliceFrom(sig, 64), Zeros(32)>>)>>)>>)>>)

\* C25: for a 48-byte pubkey, 32-byte credentials, a 96-byte signature and
\* the amount a of the record in Gwei, the manual record root computed for
\* the record is the nested SHA-256 of the four leaves with LE8(a) in the
\* amount leaf, as 0x and 64 lowercase hexadecimal digits.
C25_ManualRootIsNestedHash ==
  (last.called /\ ValidTuple(last.rec))
    => /\ SLen(VerifyInputs(last.rec).altDataRoot) = 2 * HashLen
       /\ Join(Prefix0x, VerifyInputs(last.rec).altDataRoot)
            = Join(Prefix0x,
                   HexOf(NestedRoot(VerifyInputs(last.rec).pub,
                                    VerifyInputs(last.rec).wc,
                                    VerifyInputs(last.rec).sig,
                                    ParseDecimal(last.rec.amount))))

\* the bigint whose little-endian bytes are b, as four base-65536 digits
DecodeLittleEndian(b) == [j \in 1..4 |-> b[2 * j - 1] + 256 * b[2 * j]]

\* x mod 2^64, as four base-65536 digits
Mod64(x) == [j \in 1..4 |-> Digit(x, j - 1)]

\* C26: encodeGweiAsLittleEndian8 returns 8 bytes for every amount; decoded
\* little-endian they give back x when 0 <= x < 2^64, and x mod 2^64, with
\* no error, when x >= 2^64.
C26_LittleEndian8 ==
  (call.op = "encodeGweiAsLittleEndian8")
    => /\ call.out.ok
       /\ SLen(call.out.value) = 8
       /\ Len(Chars(call.out.value)) = 8
       /\ \A n \in 1..8 : Chars(call.out.value)[n] \in 0..255
       /\ DecodeLittleEndian(Chars(call.out.value)) = Mod64(call.args[1])
       /\ call.args[1] = BigInt(ONE_ETH_GWEI)
            => Chars(call.out.value) = <<0, 202, 154, 59, 0, 0, 0, 0>>

C26_Witness ==
  /\ call.op = "encodeGweiAsLittleEndian8"
  /\ Len(call.args[1]) = 5
  /\ call.args[1][5] = 258
  /\ call.args[1][1] = 258
  /\ Chars(call.out.value) = <<2, 1, 255, 255, 0, 0, 2, 1>>

\* the calls of the BLS collaborator among the calls of a verification
BlsCalls(v) ==
  {n \in 1..Len(v.out.calls) :
     v.out.calls[n] \in {"PublicKey.fromBytes", "Signature.fromBytes", "verify"}}

\* the checks of record r that fail, numbered in the order of the spec:
\* 1 message root, 2 reference record root, 3 manual record root
FailingRootChecks(r) ==
  {k \in 1..3 :
     \/ k = 1 /\ VerifyInputs(r).expectMsgRoot # r.deposit_message_root
     \/ k = 2 /\ VerifyInputs(r).expectDataRoot # r.deposit_data_root
     \/ k = 3 /\ VerifyInputs(r).altDataRoot # r.deposit_data_root}

\* the message logged for a failing root check
MismatchName(k) ==
  IF k = 1 THEN "Message root mismatch"
  ELSE IF k = 2 THEN "Data root mismatch"
  ELSE "Alternative data root mismatch"

\* the root checks pass, or the verification returned false at the first
\* failing one without calling the BLS collaborator
RootChecksInOrder(v) ==
  /\ BlsCalls(v) # {} => FailingRootChecks(v.rec) = {}
  /\ FailingRootChecks(v.rec) # {}
       => /\ v.out.status = "invalid"
          /\ v.out.calls = RootCalls
          /\ v.debug =>
               v.out.log[Len(v.out.log)]
                 = MismatchName(CHOOSE k \in FailingRootChecks(v.rec) :
                                  \A m \in FailingRootChecks(v.rec) : k <= m)

\* C27: the verifier evaluates message root, reference record root, manual
\* record root and signature in that order and returns false at the first
\* failing check; the BLS collaborator is called only after the three root
\* comparisons succeeded.
C27_ChecksInOrder ==
  (last.called /\ VerifyInputsThrow(last.rec) = "")
    => /\ RootChecksInOrder(last)
       /\ FailingRootChecks(last.rec) = {}
            => /\ BlsCalls(last) # {}
               /\ last.out.status \in {"valid", "invalid"}
               /\ last.out.status = "valid"
                    <=> AllChecksHold(last.rec, last.domain)

\* the run was given a --wc-type outside 0, 1, 2, or no password
BadArguments ==
  /\ cli.pc # "none"
  /\ cli.values.wcType \notin {0, 1, 2} \/ ~cli.values.password

\* C28: a run with a --wc-type outside 0, 1, 2 or without a password is
\* rejected before any filesystem effect: no output directory is created and
\* no keystore and no deposit data file is written.
C28_RejectedBeforeFilesystem ==
  BadArguments
    => /\ cli.pc \in {"args", "failed"}
       /\ ~cli.dir
       /\ cli.keystores = <<>>
       /\ cli.disk = {}
       /\ ~cli.file.written
       /\ EventsOf("mkdir") \cup EventsOf("keystore") \cup EventsOf("file") = {}
       /\ cli.pc = "failed"
            => /\ cli.failedAt = "args"
               /\ cli.err = IF cli.values.wcType \notin {0, 1, 2}
                            THEN "--wc-type must be 0, 1, or 2"
                            ELSE "--password is required for keystore generation"

C28_Witness ==
  /\ cli.pc = "failed"
  /\ cli.values.wcType \in {0, 1, 2}
  /\ ~cli.values.password
  /\ cli.values.validators = 2
  /\ cli.err = "--password is required for keystore generation"
  /\ ~cli.dir

\* a run with --wc-type 1 or 2, no --wc-address and at least one validator
MissingAddressRun ==
  /\ cli.pc # "none"
  /\ cli.values.wcType \in {1, 2}
  /\ cli.values.wcAddress = NoAddr
  /\ cli.values.validators >= 1

Verifications == EventsOf("verified") \cup EventsOf("checked")

\* the item at index j of the deposit data file verifies invalid
ItemInvalid(j) ==
  verifyDepositData(cli.file.items[j + 1], cli.domain, DEBUG).status = "invalid"

\* C30: with verification enabled the deposit data file is written before
\* any record is verified; the records of the file are verified in index
\* order; at the first invalid record the run fails naming its index,
\* verifies no later record, and the deposit data file and the keystore
\* files stay on disk.
C30_VerifyAfterWrite ==
  /\ \A n \in Verifications :
       /\ cli.values.verify
       /\ \E m \in EventsOf("file") : m < n
       /\ cli.events[n][2] = Cardinality({m \in Verifications : m < n})
       /\ cli.events[n][2] < Len(cli.file.items)
  /\ \A n \in EventsOf("verified") : ~ItemInvalid(cli.events[n][2])
  /\ \A n \in EventsOf("checked") :
       /\ ItemInvalid(cli.events[n][2])
       /\ \A m \in Verifications : m <= n
       /\ cli.pc = "failed"
       /\ cli.failedAt = "verify"
       /\ cli.err = VerificationFailed(cli.events[n][2])
       /\ cli.file.written
       /\ Len(cli.file.items) = cli.values.validators
       /\ Cardinality(cli.disk) = cli.values.validators
       /\ cli.keystores = [j \in 1..cli.values.validators |-> j - 1]
  /\ (cli.pc = "done" /\ cli.values.verify)
       => \A j \in 0..(Len(cli.file.items) - 1) :
            \E n \in EventsOf("verified") : cli.events[n][2] = j

C30_Witness ==
  /\ cli.pc = "failed"
  /\ cli.values.validators = 2
  /\ cli.err = "Validator #0: verification failed"
  /\ EventsOf("checked") # {}
  /\ EventsOf("verified") = {}
  /\ cli.file.written
  /\ Len(cli.keystores) = 2

====
